---- MODULE Spec2Model ----
(***************************************************************************)
(* State-machine model of the StallionNFT Soroban contract                 *)
(* (src/stallionNFT/contracts/stallion/src/lib.rs).                        *)
(*                                                                         *)
(* The contract's persistent and instance storage are maps from DataKey to *)
(* a value.  An optional value (the result of storage().get) is modelled   *)
(* as a sequence of length 0 (None) or 1 (Some(v)).  A read                *)
(* get::<K, V>(key) of a key that holds a value of another type than V     *)
(* makes the host trap, which fails the whole invocation and rolls back    *)
(* its writes; the model reports it as the result "StorageTypeError".      *)
(* Address::from_string_bytes of bytes that are no strkey traps likewise   *)
(* (result "InvalidAddress").                                              *)
(* A panic of the contract is reported under the error kind the            *)
(* specification gives it.                                                 *)
(*                                                                         *)
(* Every invocation is one atomic step (Soroban runs one invocation per    *)
(* transaction and rolls a trapped invocation back).  The variable `last`  *)
(* records the invocation made by the step, `mintOk` counts the successful *)
(* mints of every modelled principal; both are history variables that no   *)
(* operation reads.                                                        *)
(*                                                                         *)
(* contracts/hello-world/src/lib.rs is an earlier copy of the contract     *)
(* with the same checks and the same writes to TokenCount, Owner and       *)
(* HasMinted in mint; it stores a pair of strings where this contract      *)
(* stores the MintTo record and has no get_nft_by_address.  The model      *)
(* follows contracts/stallion.                                             *)
(***************************************************************************)
EXTENDS Integers, Sequences, FiniteSets, TLC

\* ------------------------------------------------------------------ bounds
\* Number of principals that act in the model.
NumAddr == 2
\* Tokens still mintable when the model starts on a nearly exhausted ledger.
Headroom == 1
\* Number of token ids, counted from the first id the model can mint, that
\* invocations name.  On a fresh ledger NumAddr of them can be minted; the
\* others stay unminted.
MaxNew == 3

\* ------------------------------------------------------- program constants
SUPPLY == 2000
METADATA == "https://ipfs.io/ipfs/bafkreibzw25uz3cxnpd4ditc2s7ngyea2hpq45s7psbs27dm3z6r57rzbe"
IMAGE == "https://ipfs.io/ipfs/bafybeichocyvocmrrixgunzlrcnj4u7sbg3cst54mp3e3begu4qiphe3jq"

\* The principals of the model: Address values that can authorize a call.
Addr == 1..NumAddr
\* The all-zero address owner_of means to return for a token without Owner
\* entry.  It is no principal: nobody authenticates as it and no argument
\* takes it.
NullAddr == 0
\* Stands for the principals outside Addr that minted before the model
\* starts (see InitNearSupply).  They make no call in the model.
Other == NumAddr + 1

None == << >>
Some(v) == << v >>

VARIABLES
  base,        \* tokens minted by principals outside Addr before the run
  admin,       \* instance storage, DataKey::Admin(a): map a -> Address
  whitelist,   \* persistent DataKey::Whitelist: Option<Vec<Address>>
  tokenCount,  \* persistent DataKey::TokenCount: Option<i128>
  owner,       \* persistent DataKey::Owner(id), for id > base
  approvals,   \* persistent DataKey::Approvals(id), for id > base
  hasMinted,   \* persistent DataKey::HasMinted(a), for a in Addr
  last,        \* the invocation made by the last step and its outcome
  mintOk       \* mintOk[a]: number of successful mint(a) so far

vars == << base, admin, whitelist, tokenCount, owner, approvals, hasMinted,
           last, mintOk >>

\* The contract's storage.
store == << admin, whitelist, tokenCount, owner, approvals, hasMinted >>

\* The token ids that invocations name: every id the model can mint and, on
\* a fresh ledger, an id beyond them.
TokenIds == (base + 1)..(base + MaxNew)

\* ----------------------------------------------------------- stored values
\* struct MintTo
MintTo(a, id) ==
  [kind |-> "MintTo", address |-> a, token_id |-> id,
   metadata |-> METADATA, image |-> IMAGE]
\* Vec<Address>
VecOf(s) == [kind |-> "Vec", items |-> s]

Contains(s, x) == \E i \in 1..Len(s) : s[i] = x
\* Vec::iter().position(|x| x == a): the first index holding a, 0 for None.
Position(s, a) ==
  IF Contains(s, a)
  THEN CHOOSE i \in 1..Len(s) : s[i] = a /\ \A j \in 1..(i - 1) : s[j] # a
  ELSE 0
\* Vec::remove(pos)
RemoveAt(s, pos) == [i \in 1..(Len(s) - 1) |-> IF i < pos THEN s[i] ELSE s[i + 1]]

\* Variant of RemoveKey: every entry of the map is removed.
RemoveKeyAll(m, k) == << >>
\* Variant of RemoveKey: the entry is left in place.
RemoveKeyKeeps(m, k) == m
\* storage().persistent().remove(&key) on the map m.
RemoveKey(m, k) == [x \in DOMAIN m \ {k} |-> m[x]]

\* ------------------------------------------------------------ storage reads
\* storage().persistent().get(&DataKey::Owner(id)).  The ids 1..base were
\* minted before the run by principals outside Addr, which still own them.
OwnerGet(id) ==
  IF id \in DOMAIN owner THEN Some(owner[id])
  ELSE IF id \in 1..base THEN Some(Other)
  ELSE None

\* storage().persistent().get(&DataKey::Approvals(id)), before conversion.
ApprovalsGet(id) ==
  IF id \in DOMAIN approvals THEN Some(approvals[id])
  ELSE IF id \in 1..base THEN Some(MintTo(Other, id))
  ELSE None

\* get::<DataKey, Vec<Address>>(&DataKey::Approvals(id))
\*   .unwrap_or_else(|| Vec::new(&env))
\* trap: the stored value is no vector.
ApprovalsAsVec(id) ==
  LET v == ApprovalsGet(id) IN
  IF v = None THEN [trap |-> FALSE, vec |-> << >>]
  ELSE IF v[1].kind = "Vec" THEN [trap |-> FALSE, vec |-> v[1].items]
  ELSE [trap |-> TRUE, vec |-> << >>]

\* get::<DataKey, MintTo>(&DataKey::Approvals(id)): None, Some(record), or a
\* trap when the stored value is no MintTo.
ApprovalsAsMintTo(id) ==
  LET v == ApprovalsGet(id) IN
  IF v = None THEN [trap |-> FALSE, val |-> None]
  ELSE IF v[1].kind = "MintTo" THEN [trap |-> FALSE, val |-> v]
  ELSE [trap |-> TRUE, val |-> None]

\* get(&DataKey::TokenCount).unwrap_or(0)
TokenCount == IF tokenCount = None THEN 0 ELSE tokenCount[1]

\* get::<DataKey, bool>(&DataKey::HasMinted(a)).unwrap_or(false)
HasMinted(a) == IF a \in DOMAIN hasMinted THEN hasMinted[a] ELSE FALSE

\* Variant of NextTokenId: the counter is not incremented.
NextTokenIdNoIncrement == TokenCount
\* token_count += 1 in mint: the id of the token being minted.
NextTokenId == TokenCount + 1

\* Variant of owner_of: a token without Owner entry yields NullAddr.
owner_of_sentinel(id) ==
  IF OwnerGet(id) = None THEN [trap |-> FALSE, val |-> NullAddr]
  ELSE [trap |-> FALSE, val |-> OwnerGet(id)[1]]

\* owner_of: the stored owner.  Without Owner entry the closure runs
\* Address::from_string_bytes on 32 zero bytes; the host accepts only a
\* strkey (56 characters) there and traps, so no value is returned.
owner_of(id) ==
  IF OwnerGet(id) = None THEN [trap |-> TRUE, val |-> NullAddr]
  ELSE [trap |-> FALSE, val |-> OwnerGet(id)[1]]

\* is_approved: "true", "false", or the trap of the typed read.
is_approved(operator, id) ==
  LET r == ApprovalsAsVec(id) IN
  IF r.trap THEN "StorageTypeError"
  ELSE IF Contains(r.vec, operator) THEN "true" ELSE "false"

\* ----------------------------------------------------------------- history
Call(op, auth, args, result, event) ==
  [op |-> op, auth |-> auth, args |-> args, result |-> result, event |-> event]

\* ------------------------------------------------------------------- Init
\* __constructor(admin) on an empty store.
Construct(a) ==
  /\ admin = (a :> a)
  /\ last = Call("construct", TRUE, << a >>, "ok", "none")

\* The state directly after construction.
InitFresh ==
  /\ base = 0
  /\ \E a \in Addr : Construct(a)
  /\ whitelist = None
  /\ tokenCount = None
  /\ owner = << >>
  /\ approvals = << >>
  /\ hasMinted = << >>
  /\ mintOk = [a \in Addr |-> 0]

\* A ledger on which SUPPLY - Headroom principals outside Addr were
\* whitelisted, minted one token each (ids 1..base, which they still own)
\* and were removed from the whitelist again by the admin.
InitNearSupply ==
  /\ base = SUPPLY - Headroom
  /\ \E a \in Addr : Construct(a)
  /\ whitelist = Some(<< >>)
  /\ tokenCount = Some(base)
  /\ owner = << >>
  /\ approvals = << >>
  /\ hasMinted = << >>
  /\ mintOk = [a \in Addr |-> 0]

Init == InitFresh \/ InitNearSupply

\* ---------------------------------------------------------------- actions
\* Variant of AddToWhitelistResult: the address is not looked up.
AddToWhitelistResultNoContains(address) == "ok"

\* add_to_whitelist(address)
AddToWhitelistResult(address) ==
  LET wl == IF whitelist = None THEN << >> ELSE whitelist[1] IN
  IF Contains(wl, address) THEN "AlreadyWhitelisted" ELSE "ok"

AddToWhitelist(address) ==
  LET wl == IF whitelist = None THEN << >> ELSE whitelist[1]
      r == AddToWhitelistResult(address) IN
  /\ last' = Call("add_to_whitelist", FALSE, << address >>, r, "none")
  /\ IF r = "ok"
     THEN whitelist' = Some(Append(wl, address))
     ELSE UNCHANGED whitelist
  /\ UNCHANGED << base, admin, tokenCount, owner, approvals, hasMinted, mintOk >>

\* Variant of RemoveFromWhitelistResult: only require_auth guards the call.
RemoveFromWhitelistResultNoAdmin(auth, adm, address) ==
  IF ~auth THEN "NotAuthorized"
  ELSE IF whitelist = None THEN "NotWhitelisted"
  ELSE IF Position(whitelist[1], address) = 0 THEN "NotWhitelisted"
  ELSE "ok"

\* remove_from_whitelist(admin, address); auth: the invocation carries the
\* authorization of the principal passed as admin.
RemoveFromWhitelistResult(auth, adm, address) ==
  IF ~auth THEN "NotAuthorized"                          \* require_auth
  ELSE IF adm \notin DOMAIN admin THEN "NotAuthorized"   \* expect
  ELSE IF adm # admin[adm] THEN "NotAuthorized"          \* assert_eq!
  ELSE IF whitelist = None THEN "NotWhitelisted"         \* expect
  ELSE IF Position(whitelist[1], address) = 0 THEN "NotWhitelisted"
  ELSE "ok"

\* Variant of RemoveFromWhitelist: the removal also clears the mint flag of
\* the removed address.
RemoveFromWhitelistClearsMinted(auth, adm, address) ==
  LET r == RemoveFromWhitelistResult(auth, adm, address) IN
  /\ last' = Call("remove_from_whitelist", auth, << adm, address >>, r, "none")
  /\ IF r = "ok"
     THEN /\ whitelist' =
               Some(RemoveAt(whitelist[1], Position(whitelist[1], address)))
          /\ hasMinted' = RemoveKey(hasMinted, address)
     ELSE UNCHANGED << whitelist, hasMinted >>
  /\ UNCHANGED << base, admin, tokenCount, owner, approvals, mintOk >>

RemoveFromWhitelist(auth, adm, address) ==
  LET r == RemoveFromWhitelistResult(auth, adm, address) IN
  /\ last' = Call("remove_from_whitelist", auth, << adm, address >>, r, "none")
  /\ IF r = "ok"
     THEN whitelist' =
            Some(RemoveAt(whitelist[1], Position(whitelist[1], address)))
     ELSE UNCHANGED whitelist
  /\ UNCHANGED << base, admin, tokenCount, owner, approvals, hasMinted, mintOk >>

\* Variant of MintResult: membership in the whitelist is not asserted.
MintResultNoWhitelist(to) ==
  IF whitelist = None THEN "NotWhitelisted"
  ELSE IF HasMinted(to) THEN "AlreadyMinted"
  ELSE IF ~(TokenCount < SUPPLY) THEN "SupplyExhausted"
  ELSE "ok"

\* Variant of MintResult: the supply assertion is missing.
MintResultNoSupply(to) ==
  IF whitelist = None THEN "NotWhitelisted"
  ELSE IF ~Contains(whitelist[1], to) THEN "NotWhitelisted"
  ELSE IF HasMinted(to) THEN "AlreadyMinted"
  ELSE "ok"

\* Variant of MintResult: the supply assertion is token_count <= SUPPLY.
MintResultOffByOne(to) ==
  IF whitelist = None THEN "NotWhitelisted"
  ELSE IF ~Contains(whitelist[1], to) THEN "NotWhitelisted"
  ELSE IF HasMinted(to) THEN "AlreadyMinted"
  ELSE IF ~(TokenCount <= SUPPLY) THEN "SupplyExhausted"
  ELSE "ok"

\* Variant of MintResult: the has_minted assertion is missing.
MintResultNoMintOnce(to) ==
  IF whitelist = None THEN "NotWhitelisted"
  ELSE IF ~Contains(whitelist[1], to) THEN "NotWhitelisted"
  ELSE IF ~(TokenCount < SUPPLY) THEN "SupplyExhausted"
  ELSE "ok"

\* Variant of MintResult: has_minted is asserted before the whitelist.
MintResultMintOnceFirst(to) ==
  IF HasMinted(to) THEN "AlreadyMinted"
  ELSE IF whitelist = None THEN "NotWhitelisted"
  ELSE IF ~Contains(whitelist[1], to) THEN "NotWhitelisted"
  ELSE IF ~(TokenCount < SUPPLY) THEN "SupplyExhausted"
  ELSE "ok"

\* mint(to): the first failing check, or "ok".
MintResult(to) ==
  IF whitelist = None THEN "NotWhitelisted"                  \* expect
  ELSE IF ~Contains(whitelist[1], to) THEN "NotWhitelisted"  \* assert!
  ELSE IF HasMinted(to) THEN "AlreadyMinted"                 \* assert!
  ELSE IF ~(TokenCount < SUPPLY) THEN "SupplyExhausted"      \* assert!
  ELSE "ok"

\* Variant of Mint: HasMinted(to) is not written.
MintForgetsHasMinted(to) ==
  LET r == MintResult(to)
      token_count == NextTokenId IN
  /\ last' = Call("mint", FALSE, << to >>, r,
                  IF r = "ok" THEN << "Mint", to, token_count >> ELSE "none")
  /\ IF r = "ok"
     THEN /\ approvals' = (token_count :> MintTo(to, token_count)) @@ approvals
          /\ tokenCount' = Some(token_count)
          /\ owner' = (token_count :> to) @@ owner
          /\ mintOk' = [mintOk EXCEPT ![to] = @ + 1]
     ELSE UNCHANGED << approvals, tokenCount, owner, mintOk >>
  /\ UNCHANGED << base, admin, whitelist, hasMinted >>

Mint(to) ==
  LET r == MintResult(to)
      token_count == NextTokenId IN
  /\ last' = Call("mint", FALSE, << to >>, r,
                  IF r = "ok" THEN << "Mint", to, token_count >> ELSE "none")
  /\ IF r = "ok"
     THEN /\ approvals' = (token_count :> MintTo(to, token_count)) @@ approvals
          /\ tokenCount' = Some(token_count)
          /\ owner' = (token_count :> to) @@ owner
          /\ hasMinted' = (to :> TRUE) @@ hasMinted
          /\ mintOk' = [mintOk EXCEPT ![to] = @ + 1]
     ELSE UNCHANGED << approvals, tokenCount, owner, hasMinted, mintOk >>
  /\ UNCHANGED << base, admin, whitelist >>

\* Variant of TransferResult: the owner comparison is missing.
TransferResultNoOwner(auth, own, id) ==
  IF ~auth THEN "NotAuthorized" ELSE "ok"

\* transfer(owner, to, token_id); auth: the invocation carries the
\* authorization of the principal passed as owner.
TransferResult(auth, own, id) ==
  IF ~auth THEN "NotAuthorized"                          \* require_auth
  ELSE IF owner_of(id).trap THEN "InvalidAddress"
  ELSE IF own # owner_of(id).val THEN "NotTokenOwner"    \* panic!
  ELSE "ok"

\* Variant of Transfer: the approvals are removed before the owner is
\* compared, and a failing call keeps that write.
TransferClearsFirst(auth, own, to, id) ==
  LET r == TransferResult(auth, own, id) IN
  /\ last' = Call("transfer", auth, << own, to, id >>, r,
                  IF r = "ok" THEN << "Transfer", own, to, id >> ELSE "none")
  /\ approvals' = IF auth THEN RemoveKey(approvals, id) ELSE approvals
  /\ IF r = "ok" THEN owner' = (id :> to) @@ owner ELSE UNCHANGED owner
  /\ UNCHANGED << base, admin, whitelist, tokenCount, hasMinted, mintOk >>

Transfer(auth, own, to, id) ==
  LET r == TransferResult(auth, own, id) IN
  /\ last' = Call("transfer", auth, << own, to, id >>, r,
                  IF r = "ok" THEN << "Transfer", own, to, id >> ELSE "none")
  /\ IF r = "ok"
     THEN /\ owner' = (id :> to) @@ owner
          /\ approvals' = RemoveKey(approvals, id)
     ELSE UNCHANGED << owner, approvals >>
  /\ UNCHANGED << base, admin, whitelist, tokenCount, hasMinted, mintOk >>

\* Variant of ApproveResult: `to` is pushed without looking it up.
ApproveResultNoContains(auth, own, to, id) ==
  IF ~auth THEN "NotAuthorized"
  ELSE IF owner_of(id).trap THEN "InvalidAddress"
  ELSE IF own # owner_of(id).val THEN "NotTokenOwner"
  ELSE IF ApprovalsAsVec(id).trap THEN "StorageTypeError"
  ELSE "ok"

\* approve(owner, to, token_id).  "ok-noop": the call returns without
\* writing and without event, `to` being approved already.
ApproveResult(auth, own, to, id) ==
  IF ~auth THEN "NotAuthorized"                          \* require_auth
  ELSE IF owner_of(id).trap THEN "InvalidAddress"
  ELSE IF own # owner_of(id).val THEN "NotTokenOwner"    \* panic!
  ELSE IF ApprovalsAsVec(id).trap THEN "StorageTypeError"
  ELSE IF Contains(ApprovalsAsVec(id).vec, to) THEN "ok-noop"
  ELSE "ok"

Approve(auth, own, to, id) ==
  LET r == ApproveResult(auth, own, to, id) IN
  /\ last' = Call("approve", auth, << own, to, id >>, r,
                  IF r = "ok" THEN << "Approval", own, to, id >> ELSE "none")
  /\ IF r = "ok"
     THEN approvals' =
            (id :> VecOf(Append(ApprovalsAsVec(id).vec, to))) @@ approvals
     ELSE UNCHANGED approvals
  /\ UNCHANGED << base, admin, whitelist, tokenCount, owner, hasMinted, mintOk >>

\* transfer_from(spender, from, to, token_id); auth: the invocation carries
\* the authorization of the principal passed as spender.
TransferFromResult(auth, spender, from, id) ==
  IF ~auth THEN "NotAuthorized"                          \* require_auth
  ELSE IF owner_of(id).trap THEN "InvalidAddress"
  ELSE IF from # owner_of(id).val THEN "FromNotOwner"    \* panic!
  ELSE IF ApprovalsAsVec(id).trap THEN "StorageTypeError"
  ELSE IF ~Contains(ApprovalsAsVec(id).vec, spender) THEN "SpenderNotApproved"
  ELSE "ok"

\* Variant of TransferFrom: the Owner entry is not rewritten.
TransferFromKeepsOwner(auth, spender, from, to, id) ==
  LET r == TransferFromResult(auth, spender, from, id) IN
  /\ last' = Call("transfer_from", auth, << spender, from, to, id >>, r,
                  IF r = "ok" THEN << "Transfer", from, to, id >> ELSE "none")
  /\ IF r = "ok"
     THEN approvals' = RemoveKey(approvals, id)
     ELSE UNCHANGED approvals
  /\ UNCHANGED << base, admin, whitelist, tokenCount, owner, hasMinted, mintOk >>

TransferFrom(auth, spender, from, to, id) ==
  LET r == TransferFromResult(auth, spender, from, id) IN
  /\ last' = Call("transfer_from", auth, << spender, from, to, id >>, r,
                  IF r = "ok" THEN << "Transfer", from, to, id >> ELSE "none")
  /\ IF r = "ok"
     THEN /\ owner' = (id :> to) @@ owner
          /\ approvals' = RemoveKey(approvals, id)
     ELSE UNCHANGED << owner, approvals >>
  /\ UNCHANGED << base, admin, whitelist, tokenCount, hasMinted, mintOk >>

\* get_token_image(token_id) / get_token_metadata(token_id)
GetTokenResult(id) ==
  LET r == ApprovalsAsMintTo(id) IN
  IF r.trap THEN "StorageTypeError"
  ELSE IF r.val = None THEN "TokenNotFound"              \* expect
  ELSE "ok"

GetTokenImage(id) ==
  /\ last' = Call("get_token_image", FALSE, << id >>, GetTokenResult(id),
                  IF GetTokenResult(id) = "ok"
                  THEN ApprovalsAsMintTo(id).val[1].image ELSE "none")
  /\ UNCHANGED << base, store, mintOk >>

GetTokenMetadata(id) ==
  /\ last' = Call("get_token_metadata", FALSE, << id >>, GetTokenResult(id),
                  IF GetTokenResult(id) = "ok"
                  THEN ApprovalsAsMintTo(id).val[1].metadata ELSE "none")
  /\ UNCHANGED << base, store, mintOk >>

\* is_approved(operator, token_id), as an invocation.
IsApproved(operator, id) ==
  /\ last' = Call("is_approved", FALSE, << operator, id >>,
                  IF is_approved(operator, id) = "StorageTypeError"
                  THEN "StorageTypeError" ELSE "ok",
                  is_approved(operator, id))
  /\ UNCHANGED << base, store, mintOk >>

\* owner_of(token_id), as an invocation.
OwnerOf(id) ==
  /\ last' = Call("owner_of", FALSE, << id >>,
                  IF owner_of(id).trap THEN "InvalidAddress" ELSE "ok",
                  IF owner_of(id).trap THEN "none" ELSE owner_of(id).val)
  /\ UNCHANGED << base, store, mintOk >>

RECURSIVE ScanFrom(_, _)
\* The loop of get_nft_by_address from token_id on: the first record whose
\* address matches, None past TokenCount, or the trap of a typed read.
ScanFrom(token_id, address) ==
  IF token_id > TokenCount THEN [trap |-> FALSE, val |-> None]
  ELSE LET r == ApprovalsAsMintTo(token_id) IN
       IF r.trap THEN [trap |-> TRUE, val |-> None]
       ELSE IF r.val # None /\ r.val[1].address = address
            THEN [trap |-> FALSE, val |-> r.val]
            ELSE ScanFrom(token_id + 1, address)

\* get_nft_by_address(address), for address in Addr.  The ids 1..base hold
\* the records of principals outside Addr, which the loop reads and passes
\* over; the scan is taken up behind them.
get_nft_by_address(address) == ScanFrom(base + 1, address)

\* get_nft_by_address(address), as an invocation.
GetNftByAddress(address) ==
  /\ last' = Call("get_nft_by_address", FALSE, << address >>,
                  IF get_nft_by_address(address).trap
                  THEN "StorageTypeError" ELSE "ok",
                  IF get_nft_by_address(address).trap
                  THEN "none" ELSE get_nft_by_address(address).val)
  /\ UNCHANGED << base, store, mintOk >>

Next ==
  \/ \E a \in Addr : AddToWhitelist(a)
  \/ \E auth \in BOOLEAN, adm \in Addr, a \in Addr : RemoveFromWhitelist(auth, adm, a)
  \/ \E a \in Addr : Mint(a)
  \/ \E auth \in BOOLEAN, o \in Addr, to \in Addr, id \in TokenIds :
        Transfer(auth, o, to, id)
  \/ \E auth \in BOOLEAN, o \in Addr, to \in Addr, id \in TokenIds :
        Approve(auth, o, to, id)
  \/ \E auth \in BOOLEAN, s \in Addr, f \in Addr, to \in Addr, id \in TokenIds :
        TransferFrom(auth, s, f, to, id)
  \/ \E id \in TokenIds : GetTokenImage(id)
  \/ \E id \in TokenIds : GetTokenMetadata(id)
  \/ \E op \in Addr, id \in TokenIds : IsApproved(op, id)
  \/ \E id \in TokenIds : OwnerOf(id)
  \/ \E a \in Addr : GetNftByAddress(a)

Spec == Init /\ [][Next]_vars
\* ================================================================ claims
RECURSIVE SumMintOk(_)
\* Number of successful mints of the principals 1..n.
SumMintOk(n) == IF n = 0 THEN 0 ELSE mintOk[n] + SumMintOk(n - 1)

\* Number of mints that have succeeded on the ledger.
MintsSucceeded == base + SumMintOk(NumAddr)

\* The token ids that have an Owner entry.
OwnerIds == (1..base) \cup DOMAIN owner

InWhitelist(a) == whitelist # None /\ Contains(whitelist[1], a)

Failed(c) == c.result \notin {"ok", "ok-noop"}

\* C1: when N mints have succeeded, TokenCount is N and the token ids with an
\* Owner entry are exactly 1..N (failed mints leave the counter alone, or
\* the counter would exceed the number of successes); the id a successful
\* mint announces is the new TokenCount.
C1_DenseTokenIds ==
  /\ TokenCount = MintsSucceeded
  /\ OwnerIds = 1..MintsSucceeded
  /\ (last.op = "mint" /\ last.result = "ok") => last.event[3] = TokenCount

\* Two tokens were minted on a fresh ledger and a further mint failed.
C1_Witness ==
  /\ base = 0
  /\ SumMintOk(NumAddr) = 2
  /\ TokenCount = 2
  /\ last.op = "mint" /\ Failed(last)

\* C2: TokenCount never exceeds SUPPLY.
C2_SupplyNeverExceeded == TokenCount <= SUPPLY

\* The mint that takes the last token of the supply has succeeded.
C2_Witness ==
  /\ TokenCount = SUPPLY
  /\ last.op = "mint" /\ last.result = "ok"

\* C3: a principal mints at most once: once mint(p) has succeeded, every
\* later mint(p) fails and leaves TokenCount and all Owner entries unchanged.
C3_MintAtMostOnce ==
  /\ [](\A p \in Addr : mintOk[p] <= 1)
  /\ [][\A p \in Addr :
          (mintOk[p] >= 1 /\ last'.op = "mint" /\ last'.args = << p >>)
          => /\ Failed(last')
             /\ tokenCount' = tokenCount
             /\ owner' = owner]_vars

\* mint(p) failed with AlreadyMinted after p transferred its token away.
C3_Witness ==
  \E p \in Addr :
    /\ mintOk[p] = 1
    /\ last.op = "mint" /\ last.args = << p >> /\ last.result = "AlreadyMinted"
    /\ \A id \in DOMAIN owner : owner[id] # p

\* C4: the owner of a minted token changes only in a successful
\* transfer(o, to, id) authorized by the owner o, or in a successful
\* transfer_from(s, o, to, id) authorized by a spender s that is in the
\* approval set of id; the new owner is `to`, and no Owner entry disappears.
C4_OwnerChangesOnlyByAuthorizedMove ==
  [][\A id \in DOMAIN owner :
       /\ id \in DOMAIN owner'
       /\ owner'[id] # owner[id] =>
            \/ /\ last'.op = "transfer" /\ last'.result = "ok" /\ last'.auth
               /\ last'.args = << owner[id], owner'[id], id >>
            \/ /\ last'.op = "transfer_from" /\ last'.result = "ok" /\ last'.auth
               /\ last'.args[2] = owner[id]
               /\ last'.args[3] = owner'[id]
               /\ last'.args[4] = id
               /\ ~ApprovalsAsVec(id).trap
               /\ Contains(ApprovalsAsVec(id).vec, last'.args[1])]_vars

\* A spender that is not the owner has moved a token to a third position.
C4_Witness ==
  /\ last.op = "transfer_from" /\ last.result = "ok"
  /\ last.args[1] # last.args[2]
  /\ owner[last.args[4]] = last.args[3]

\* C5: a failing invocation leaves the whole store as it was.
C5_FailureLeavesStore == [][Failed(last') => store' = store]_vars

\* remove_from_whitelist passed the admin checks and failed on its last
\* check, on a ledger that holds tokens.
C5_Witness ==
  /\ last.op = "remove_from_whitelist" /\ last.auth
  /\ last.result = "NotWhitelisted"
  /\ TokenCount > base

\* C6: directly after a successful transfer or transfer_from of id,
\* is_approved(op, id) is false for every principal op.
C6_TransferClearsApprovals ==
  (last.op \in {"transfer", "transfer_from"} /\ last.result = "ok") =>
     \A op \in Addr \cup {Other} :
        is_approved(op, last.args[Len(last.args)]) = "false"

\* An approved spender has executed transfer_from to itself.
C6_Witness ==
  /\ last.op = "transfer_from" /\ last.result = "ok"
  /\ last.args[1] = last.args[3]
  /\ is_approved(last.args[1], last.args[4]) = "false"

\* C7: directly after a successful mint(o) of token id, is_approved(op, id)
\* is false for every op and approve(o, to, id) by the owner succeeds for
\* every `to`: the record mint stores for the token leaves its approval set
\* empty and usable.
C7_FreshTokenHasEmptyApprovals ==
  (last.op = "mint" /\ last.result = "ok") =>
     LET o == last.args[1]
         id == last.event[3] IN
     \A op \in Addr :
        /\ is_approved(op, id) = "false"
        /\ ApproveResult(TRUE, o, op, id) = "ok"

\* C8: mint(to) reports the first violated precondition in the order
\* whitelist, mint-once, supply: NotWhitelisted whenever `to` is not in the
\* whitelist (also when `to` has minted or the supply is exhausted), and
\* AlreadyMinted whenever `to` is whitelisted and has minted (also when the
\* supply is exhausted).
C8_MintCheckOrder ==
  [][last'.op = "mint" =>
       LET to == last'.args[1] IN
       /\ ~InWhitelist(to) => last'.result = "NotWhitelisted"
       /\ (InWhitelist(to) /\ mintOk[to] >= 1) => last'.result = "AlreadyMinted"
       /\ (InWhitelist(to) /\ mintOk[to] = 0 /\ TokenCount >= SUPPLY)
             => last'.result = "SupplyExhausted"]_vars

\* The scenario construct(A); add_to_whitelist(B); mint(B);
\* remove_from_whitelist(A, B); mint(B): the second mint(B) has failed with
\* NotWhitelisted on the emptied whitelist.
C8_Witness ==
  \E b \in Addr :
    /\ base = 0 /\ TokenCount = 1 /\ mintOk[b] = 1
    /\ whitelist = Some(<< >>)
    /\ last.op = "mint" /\ last.args = << b >>
    /\ last.result = "NotWhitelisted"

\* C9 as stated: once TokenCount is SUPPLY, every mint attempt, for any
\* address, fails with SupplyExhausted and TokenCount stays SUPPLY.
C9_EveryMintAtSupplyIsSupplyExhausted ==
  [][(TokenCount = SUPPLY /\ last'.op = "mint") =>
        (last'.result = "SupplyExhausted" /\ tokenCount' = tokenCount)]_vars

\* C9 amended: once TokenCount is SUPPLY it stays SUPPLY in every later
\* step, and every mint attempt fails: with SupplyExhausted exactly when the
\* address is whitelisted and has not minted, and otherwise with the error of
\* the earlier check (NotWhitelisted, AlreadyMinted).
C9_NoMintAtSupply ==
  [][TokenCount = SUPPLY =>
       /\ tokenCount' = tokenCount
       /\ last'.op = "mint" =>
            LET to == last'.args[1] IN
            /\ last'.result \in {"NotWhitelisted", "AlreadyMinted", "SupplyExhausted"}
            /\ last'.result = "SupplyExhausted"
                  <=> (InWhitelist(to) /\ mintOk[to] = 0)]_vars

\* On the exhausted ledger a whitelisted principal that has not minted was
\* refused with SupplyExhausted.
C9_Witness ==
  /\ TokenCount = SUPPLY
  /\ last.op = "mint" /\ last.result = "SupplyExhausted"
  /\ mintOk[last.args[1]] = 0

\* The principal __constructor recorded as admin.
AdminPrincipal == CHOOSE a \in DOMAIN admin : TRUE

\* C10: remove_from_whitelist succeeds only when the caller is authenticated
\* and is the admin recorded at construction; for any other caller it fails
\* with NotAuthorized and the whitelist is unchanged.  The whitelist loses a
\* member only in a step of the authenticated admin, and the stored admin
\* never changes.
C10_OnlyAdminRemoves ==
  [][/\ admin' = admin
     /\ DOMAIN admin = {AdminPrincipal} /\ admin[AdminPrincipal] = AdminPrincipal
     /\ last'.op = "remove_from_whitelist" =>
          /\ last'.result = "ok" => (last'.auth /\ last'.args[1] = AdminPrincipal)
          /\ (~last'.auth \/ last'.args[1] # AdminPrincipal) =>
                (last'.result = "NotAuthorized" /\ whitelist' = whitelist)
     /\ (\E a \in Addr : InWhitelist(a) /\ ~InWhitelist(a)') =>
          /\ last'.op = "remove_from_whitelist"
          /\ last'.auth
          /\ last'.args[1] = AdminPrincipal]_vars

\* An authenticated principal that is not the admin was refused the removal
\* of a whitelisted address.
C10_Witness ==
  /\ last.op = "remove_from_whitelist" /\ last.auth
  /\ last.args[1] # AdminPrincipal
  /\ InWhitelist(last.args[2])
  /\ last.result = "NotAuthorized"

\* C11: a mint succeeds only for an address that is in the whitelist at the
\* moment of the call; for an address that is not (never added, removed
\* again, or no Whitelist entry at all) it fails with NotWhitelisted.
C11_MintRequiresWhitelist ==
  [][last'.op = "mint" =>
       /\ last'.result = "ok" => InWhitelist(last'.args[1])
       /\ ~InWhitelist(last'.args[1]) => last'.result = "NotWhitelisted"]_vars

\* An address that has not minted was refused with NotWhitelisted on a
\* whitelist from which it had been removed again.
C11_Witness ==
  /\ base = 0 /\ TokenCount = 0
  /\ whitelist = Some(<< >>)
  /\ last.op = "mint" /\ last.result = "NotWhitelisted"

\* C12: in every state, for every address a, get_nft_by_address(a) returns
\* the record (a, token id, METADATA, IMAGE) of a minted token when a has
\* minted, and returns not-found, without failing, when a has not minted.
C12_NftByAddressFindsMintedRecord ==
  \A a \in Addr :
    LET r == get_nft_by_address(a) IN
    /\ ~r.trap
    /\ mintOk[a] = 0 => r.val = None
    /\ mintOk[a] >= 1 =>
         /\ r.val # None
         /\ r.val[1].address = a
         /\ r.val[1].token_id \in 1..TokenCount
         /\ r.val[1].metadata = METADATA
         /\ r.val[1].image = IMAGE

\* C13: in every state, get_token_image(id) and get_token_metadata(id)
\* return the URIs stored at mint for every id in 1..TokenCount, and fail
\* with TokenNotFound for every id beyond TokenCount.
C13_TokenRecordIsPermanent ==
  \A id \in TokenIds :
    /\ id <= TokenCount =>
         /\ GetTokenResult(id) = "ok"
         /\ ApprovalsAsMintTo(id).val[1].image = IMAGE
         /\ ApprovalsAsMintTo(id).val[1].metadata = METADATA
    /\ id > TokenCount => GetTokenResult(id) = "TokenNotFound"

\* C14: directly after a successful transfer_from(spender, from, to, id),
\* owner_of(id) returns `to`, and the same call made again fails with
\* FromNotOwner or SpenderNotApproved and leaves the store unchanged.
C14_DelegatedTransferRoundTrip ==
  /\ []((last.op = "transfer_from" /\ last.result = "ok") =>
          /\ owner_of(last.args[4]) = [trap |-> FALSE, val |-> last.args[3]]
          /\ TransferFromResult(TRUE, last.args[1], last.args[2], last.args[4])
                \in {"FromNotOwner", "SpenderNotApproved"})
  /\ [][(/\ last.op = "transfer_from" /\ last.result = "ok"
         /\ last'.op = "transfer_from" /\ last'.auth
         /\ last'.args = last.args)
        => /\ last'.result \in {"FromNotOwner", "SpenderNotApproved"}
           /\ store' = store]_vars

\* A transfer_from with to = from has succeeded: `from` is still the owner,
\* and the same call made again is refused with SpenderNotApproved.
C14_Witness ==
  /\ last.op = "transfer_from" /\ last.result = "ok"
  /\ last.args[2] = last.args[3]
  /\ TransferFromResult(TRUE, last.args[1], last.args[2], last.args[4])
        = "SpenderNotApproved"

\* The approval vector of id, empty when the entry is absent or no vector.
ApprovalSet(id) == ApprovalsAsVec(id).vec

NoDuplicates(s) == \A i, j \in 1..Len(s) : s[i] = s[j] => i = j

\* C15: approve is idempotent: directly after approve(owner, to, id) has
\* succeeded, the same call returns without writing and without event; an
\* approve of an approved principal changes nothing in the store and emits
\* nothing; no approval vector holds a principal twice.
C15_ApproveIdempotent ==
  /\ [](/\ \A id \in DOMAIN approvals : NoDuplicates(ApprovalSet(id))
        /\ (last.op = "approve" /\ ~Failed(last)) =>
              /\ Contains(ApprovalSet(last.args[3]), last.args[2])
              /\ ApproveResult(TRUE, last.args[1], last.args[2], last.args[3])
                    = "ok-noop")
  /\ [][(/\ last'.op = "approve" /\ ~Failed(last')
         /\ Contains(ApprovalSet(last'.args[3]), last'.args[2]))
        => /\ store' = store
           /\ last'.event = "none"]_vars

\* The second of two approve calls for the same principal has returned
\* without effect, the token having two approved principals.
C15_Witness ==
  /\ last.op = "approve" /\ last.result = "ok-noop"
  /\ Len(ApprovalSet(last.args[3])) = 2

\* The whitelist, empty when the entry is absent.
WhitelistVec == IF whitelist = None THEN << >> ELSE whitelist[1]

C17_HasMintedTracksMints ==
  /\ \A p \in Addr : HasMinted(p) <=> mintOk[p] >= 1
  /\ base + Cardinality({p \in Addr : HasMinted(p)}) = TokenCount

\* Every principal has minted and one of them holds no token any more.
C17_Witness ==
  /\ \A p \in Addr : HasMinted(p)
  /\ \E p \in Addr : \A id \in DOMAIN owner : owner[id] # p
  /\ last.op = "mint" /\ last.result = "AlreadyMinted"

\* C18: for a token id without Owner entry, owner_of(id) returns the null
\* address without failing, transfer(p, to, id) and approve(p, to, id) fail
\* with NotTokenOwner for every principal p, transfer_from(s, from, to, id)
\* fails for every from, and the id has no Approvals entry.
C18_UnmintedTokenIsInert ==
  \A id \in TokenIds :
    OwnerGet(id) = None =>
      /\ owner_of(id) = [trap |-> FALSE, val |-> NullAddr]
      /\ ApprovalsGet(id) = None
      /\ \A p \in Addr, to \in Addr :
           /\ TransferResult(TRUE, p, id) = "NotTokenOwner"
           /\ ApproveResult(TRUE, p, to, id) = "NotTokenOwner"
      /\ \A s \in Addr, f \in Addr \cup {NullAddr} :
           TransferFromResult(TRUE, s, f, id) # "ok"

Without(m, k) == [x \in DOMAIN m \ {k} |-> m[x]]

\* C20: a successful transfer, transfer_from or approve on id leaves
\* TokenCount, Whitelist, Admin, every HasMinted entry and the Owner and
\* Approvals entries of every other id unchanged; no step removes an Owner
\* entry or decreases TokenCount.
C20_TokenOperationsAreLocal ==
  [][/\ (last'.op \in {"transfer", "transfer_from", "approve"} /\ ~Failed(last'))
        => LET id == last'.args[Len(last'.args)] IN
           /\ tokenCount' = tokenCount
           /\ whitelist' = whitelist
           /\ admin' = admin
           /\ hasMinted' = hasMinted
           /\ Without(owner', id) = Without(owner, id)
           /\ Without(approvals', id) = Without(approvals, id)
     /\ DOMAIN owner \subseteq DOMAIN owner'
     /\ TokenCount' >= TokenCount]_vars

\* A token was transferred while another token had its Approvals entry.
C20_Witness ==
  /\ last.op = "transfer" /\ last.result = "ok"
  /\ \E k \in DOMAIN approvals : k # last.args[3]

====
